---- MODULE Spec2Model ----
(***************************************************************************)
(* Text-to-speech generation cache and model-lifecycle manager of the     *)
(* White Rabbit API (api/src/services/tts_model.py, tts_service.py), with *)
(* its endpoints (api/src/routers/tts.py) and the search endpoint.         *)
(*                                                                         *)
(* Execution model.  Request handlers are coroutines of one asyncio event  *)
(* loop: the code between two suspension points runs atomically with       *)
(* respect to every other coroutine.  Engine loading and synthesis run on  *)
(* executor threads, which touch shared state only through the file they   *)
(* write.  Each action below is one such atomic stretch of a call, or one  *)
(* file-system step of its executor thread.                                *)
(*                                                                         *)
(* The specifications share the variables: Spec (generate and warm-up      *)
(* calls), SweepSpec (cleanup_old_cache_files, one loop iteration per      *)
(* step, over the caches an earlier run can have left), LifecycleSpec      *)
(* (warm-up, readiness probe and release of the manager; LifecycleLiveSpec *)
(* adds the fairness of the event loop), EndpointSpec (the handlers of     *)
(* routers/tts.py, with TTS and lazy loading enabled or not) and           *)
(* SearchSpec (GET /api/search).                                           *)
(*                                                                         *)
(* The SHA-256 digest of _generate_cache_key is taken as collision-free:   *)
(* a key is represented by the string handed to the digest.               *)
(***************************************************************************)
EXTENDS Integers, Sequences, FiniteSets, TLC

(* ------------------------------ bounds -------------------------------- *)

\* Calls (generate or warmup) made during one run of the process.
NumCalls == 2

\* Runs of cleanup_old_cache_files in one behaviour of the evictor.
MaxSweeps == 2

\* Manager operations (warm-up, readiness probe, release) in one behaviour
\* of the manager's life cycle.
NumOps == 4

LifecycleCallers == 1..NumOps

\* Seconds the clock advances in one behaviour of the evictor.
MaxTicks == 1

Callers == 1..NumCalls

\* Requests the TTS endpoints and the shutdown hook make.
NumRequests == 2

EndpointCallers == 1..NumRequests

\* Requests the search endpoint serves, one after the other.
MaxSearches == 2

\* The most records the search index holds for one search term.
MaxRecords == 2

(* ----------------------------- settings ------------------------------- *)

\* settings.tts_max_text_length (default 5000), configured to 3 here so that
\* texts of length max and max+1 are small.
tts_max_text_length == 3

tts_default_voice == "bm_fable"

static_audio_url_prefix == "/static/audio"

\* settings.audio_base_url ("/static/audio" by default; overridden here, as
\* in production, so that the two prefixes differ)
audio_base_url == "https://pages.example/audio"

\* settings.tts_cache_ttl_hours (168 by default; one hour here)
tts_cache_ttl_hours == 1

\* settings.tts_cache_max_size_mb (1024 by default; one megabyte here)
tts_cache_max_size_mb == 1

\* ttl_seconds = settings.tts_cache_ttl_hours * 3600
ttl_seconds == tts_cache_ttl_hours * 3600

\* max_size_bytes = settings.tts_cache_max_size_mb * 1024 * 1024
max_size_bytes == tts_cache_max_size_mb * 1024 * 1024

\* time.time() when the process starts
StartTime == 7200

\* The size of the file one synthesis writes.
AudioSize == max_size_bytes \div 2

\* Request texts: lengths 1, max and max+1; ':' is part of the alphabet.
Texts == {"a", "a:b", "a:bc"}

\* Requested voice ids: absent, the "default" sentinel, the configured
\* default itself and another id.
VoiceIds == {"", "default", "bm_fable", "b:bm_fable"}

(* ------------------------------ values -------------------------------- *)

\* self._pipeline = None
NoPipeline == 0

\* asyncio.Lock not held
NoOne == 0

\* self._initialization_error = None
NoError == "None"

\* No file at a cache path.  A file has a state, the call that opened it
\* last (by), the calls that opened this inode for writing (opened), the
\* writers whose bytes it holds (wrote; 0 is an earlier run), and its stat().
NoFile ==
    [state |-> "absent", by |-> 0, opened |-> {}, wrote |-> {}, st_mtime |-> 0,
     st_size |-> 0]

\* A complete file written at time mtime, size bytes long, by an earlier run.
StoredFile(mtime, size) ==
    [state |-> "complete", by |-> 0, opened |-> {}, wrote |-> {0},
     st_mtime |-> mtime, st_size |-> size]

\* A file left by an earlier run of the process.
OldFile == StoredFile(StartTime, AudioSize)

NoResult ==
    [status |-> "pending", cached |-> FALSE, audio_url |-> "", error |-> "",
     message |-> "", text_length |-> 0, max_length |-> 0]

NotCalled == [kind |-> "not_called", h |-> 0]

\* GET /api/search: q = Query(..., min_length=1, max_length=200)
q_min_length == 1

q_max_length == 200

\* GET /api/search: limit = Query(default=10, ge=1, le=100)
limit_default == 10

limit_ge == 1

limit_le == 100

\* The query string of a request that carries neither q nor limit.
NoParams == [has_q |-> FALSE, q |-> "", has_limit |-> FALSE, limit |-> 0]

NoSearchResponse == [status_code |-> 0, query |-> "", total |-> 0,
                     results |-> <<>>]

\* No search request has arrived.  executed lists the parameters of the
\* queries run for the request being served, records what the database gave.
NoSearch ==
    [pc |-> "idle", served |-> 0, params |-> NoParams, executed |-> <<>>,
     records |-> <<>>, response |-> NoSearchResponse]

VARIABLES
    tts_enabled,            \* settings.tts_enabled, fixed at startup
    tts_lazy_load,          \* settings.tts_lazy_load, fixed at startup
    instance,               \* TTSModelManager._instance is not None
    pipeline,               \* TTSModelManager._pipeline (NoPipeline or a handle)
    is_loading,             \* TTSModelManager._is_loading
    initialization_error,   \* TTSModelManager._initialization_error
    lock_holder,            \* holder of TTSModelManager._lock
    lock_waiters,           \* FIFO of callers suspended in "async with self._lock"
    cache_dir_exists,       \* settings.tts_cache_dir exists
    cache,                  \* cache key -> file at <cache_dir>/<key>.wav
    pc,                     \* position of each call
    req,                    \* arguments of each call
    result,                 \* what each call returned or raised
    gp_out,                 \* what get_pipeline() gave each call
    load_by,                \* calls that invoked _load_pipeline_sync
    waited,                 \* calls that were suspended on the lock
    engine_calls,           \* calls whose thread invoked pipeline(text, voice)
    pool_submits,           \* calls that submitted generate() to _tts_executor
    before,                 \* before[c]: calls that had returned when c started
    removed,                \* keys whose file was unlinked at some point
    unlink_failed,          \* calls whose clean-up unlink raised
    now,                    \* time.time()
    sweep,                  \* the run of cleanup_old_cache_files in progress
    search                  \* the request GET /api/search is serving

settings == <<tts_enabled, tts_lazy_load>>

manager == <<instance, pipeline, is_loading, initialization_error,
             lock_holder, lock_waiters>>

calls == <<pc, req, result, gp_out, before>>

ghosts == <<load_by, waited, engine_calls, pool_submits, removed,
           unlink_failed>>

evictor == <<now, sweep>>

vars == <<settings, manager, cache_dir_exists, cache, calls, ghosts,
          evictor, search>>

(* ------------------------- pure functions ----------------------------- *)

\* cache_string = f"{text}:{voice_id}"; the digest is injective on it.
_generate_cache_key(text, voice_id) == text \o ":" \o voice_id

\* Mutant: the bound taken as exclusive.
TextTooLong_OffByOne(text) == Len(text) >= tts_max_text_length

\* if len(text) > settings.tts_max_text_length
TextTooLong(text) == Len(text) > tts_max_text_length

\* Mutant: only the empty voice id stands for the default voice.
ResolveVoice_KeepsDefault(voice_id) ==
    IF voice_id = "" THEN tts_default_voice ELSE voice_id

\* if not voice_id or voice_id == "default": voice_id = settings.tts_default_voice
ResolveVoice(voice_id) ==
    IF voice_id = "" \/ voice_id = "default" THEN tts_default_voice ELSE voice_id

\* f"{settings.static_audio_url_prefix}/{cache_path.name}"
AudioUrl(cache_key) == static_audio_url_prefix \o "/" \o cache_key \o ".wav"

\* Mutant: the lookup probes a path nothing is ever written to.
Exists_WrongPath(files, cache_key) == FALSE

\* cache_file.exists()
Exists(files, cache_key) == files[cache_key].state # "absent"

\* The key of a generate call.
KeyOf(c) == _generate_cache_key(req[c].text, ResolveVoice(req[c].voice_id))

\* Every key a valid request can compute.
Keys ==
    {_generate_cache_key(t, ResolveVoice(v)) :
        t \in {x \in Texts : ~TextTooLong(x)}, v \in VoiceIds}

\* _generate_audio_sync: "except TTSGenerationError: raise", and every other
\* exception is raised again as TTSGenerationError.
SurfacedError(kind) ==
    IF kind = "TTSGenerationError" THEN kind ELSE "TTSGenerationError"

Response(url, is_cached) ==
    [NoResult EXCEPT !.status = "ok", !.audio_url = url, !.cached = is_cached]

Raised(kind) == [NoResult EXCEPT !.status = "error", !.error = kind]

\* raise TTSGenerationError(message=f"Audio generation failed: {str(e)}")
GenerationFailed(message) ==
    [Raised("TTSGenerationError") EXCEPT !.message = message]

\* What generate() can fail with before it opens the file: the engine raises
\* (any message, left empty here), or it yields nothing and generate() raises
\* "No audio chunks generated".
SynthFailures == {"", "No audio chunks generated"}

\* raise TextTooLongError(text_length=len(text), max_length=...)
TextTooLongError(text) ==
    [NoResult EXCEPT !.status = "error", !.error = "TextTooLongError",
                     !.text_length = Len(text),
                     !.max_length = tts_max_text_length]

(* ------------------------------- Init --------------------------------- *)

\* No run of cleanup_old_cache_files has started.  files is the list the
\* run works on, todo what is left of the copy files[:] the age pass
\* iterates; returned lists, for the runs so far, the value returned and the
\* removals that raised; at_start and failed remember the cache the run
\* found and the removals that raised in it, age_tried and size_tried the
\* unlink attempts of each pass, in order.
NoSweep ==
    [pc |-> "idle", current_time |-> 0, files |-> <<>>, todo |-> <<>>,
     current_size |-> 0, removed_count |-> 0, returned |-> <<>>,
     at_start |-> [k \in Keys |-> NoFile], failed |-> {},
     age_tried |-> <<>>, size_tried |-> <<>>]

\* TTSModelManager.__init__, with no instance created yet.
InitManager ==
    /\ instance = FALSE
    /\ pipeline = NoPipeline
    /\ is_loading = FALSE
    /\ initialization_error = NoError
    /\ lock_holder = NoOne
    /\ lock_waiters = <<>>

\* No call has arrived.
InitCalls(callers) ==
    /\ pc = [c \in callers |-> "idle"]
    /\ req = [c \in callers |-> [op |-> "none", text |-> "", voice_id |-> ""]]
    /\ result = [c \in callers |-> NoResult]
    /\ gp_out = [c \in callers |-> NotCalled]
    /\ before = [c \in callers |-> {}]
    /\ load_by = {}
    /\ waited = {}
    /\ engine_calls = {}
    /\ pool_submits = {}
    /\ removed = {}
    /\ unlink_failed = {}

InitEvictor ==
    /\ now = StartTime
    /\ sweep = NoSweep

\* settings.tts_enabled keeps its default, and no search has been served.
InitRouters ==
    /\ tts_enabled = TRUE
    /\ search = NoSearch

Init ==
    /\ tts_lazy_load \in BOOLEAN
    /\ InitManager
    /\ cache_dir_exists \in BOOLEAN
    /\ \E old \in {S \in SUBSET Keys : Cardinality(S) <= 1} :
          /\ old # {} => cache_dir_exists
          /\ cache = [k \in Keys |-> IF k \in old THEN OldFile ELSE NoFile]
    /\ InitCalls(Callers)
    /\ InitEvictor
    /\ InitRouters

(* --------------------- TTSModelManager.get_pipeline -------------------- *)

Handle(h) == [kind |-> "handle", h |-> h]

Outcome(kind) == [kind |-> kind, h |-> 0]

\* get_pipeline() with the lock held: the double check, the wait for a load
\* in progress, and the start of a load.  The result gives the manager
\* fields after the stretch and `out`: what the caller gets, or where it is
\* suspended ("polling": asyncio.sleep in the wait loop, "loading": the
\* executor runs _load_pipeline_sync).
LockedSection(c, waiters) ==
    IF pipeline # NoPipeline
    THEN [is_loading |-> is_loading, holder |-> NoOne, waiters |-> waiters,
          loads |-> load_by, out |-> Handle(pipeline)]
    ELSE IF is_loading
    THEN [is_loading |-> is_loading, holder |-> c, waiters |-> waiters,
          loads |-> load_by, out |-> Outcome("polling")]
    ELSE [is_loading |-> TRUE, holder |-> c, waiters |-> waiters,
          loads |-> load_by \cup {c}, out |-> Outcome("loading")]

\* Mutant: the lazy-load setting is not consulted.
GetPipelineEntry_NoLazyCheck(c) ==
    LET keep(out) == [is_loading |-> is_loading, holder |-> lock_holder,
                      waiters |-> lock_waiters, loads |-> load_by, out |-> out]
    IN  IF pipeline # NoPipeline THEN keep(Handle(pipeline))
        ELSE IF initialization_error # NoError
        THEN keep(Outcome("TTSModelNotReadyError"))
        ELSE IF lock_holder = NoOne /\ lock_waiters = <<>>
        THEN LockedSection(c, lock_waiters)
        ELSE [is_loading |-> is_loading, holder |-> lock_holder,
              waiters |-> Append(lock_waiters, c), loads |-> load_by,
              out |-> Outcome("wait_lock")]

\* get_pipeline() from its entry to its first suspension point.
GetPipelineEntry(c) ==
    LET keep(out) == [is_loading |-> is_loading, holder |-> lock_holder,
                      waiters |-> lock_waiters, loads |-> load_by, out |-> out]
    IN  IF pipeline # NoPipeline THEN keep(Handle(pipeline))
        ELSE IF ~tts_lazy_load THEN keep(Outcome("TTSModelNotReadyError"))
        ELSE IF initialization_error # NoError
        THEN keep(Outcome("TTSModelNotReadyError"))
        ELSE IF lock_holder = NoOne /\ lock_waiters = <<>>
        THEN LockedSection(c, lock_waiters)
        ELSE [is_loading |-> is_loading, holder |-> lock_holder,
              waiters |-> Append(lock_waiters, c), loads |-> load_by,
              out |-> Outcome("wait_lock")]

\* The wait loop of get_pipeline() once the load it waited for is over.
AfterPolling ==
    IF pipeline # NoPipeline THEN Handle(pipeline)
    ELSE Outcome("TTSModelNotReadyError")

SetManager(g) ==
    /\ is_loading' = g.is_loading
    /\ lock_holder' = g.holder
    /\ lock_waiters' = g.waiters
    /\ load_by' = g.loads

Suspended(out) == out.kind \in {"wait_lock", "polling", "loading"}

(* ------------------------- generate_tts_audio -------------------------- *)

Finish(c, res) ==
    /\ pc' = [pc EXCEPT ![c] = "done"]
    /\ result' = [result EXCEPT ![c] = res]

\* Mutant: the failure is re-raised without removing the file.
CleanupAndRaise_NoUnlink(c, cache_key, err) ==
    /\ Finish(c, err)
    /\ UNCHANGED <<cache, removed, unlink_failed>>

\* The except block of generate_tts_audio: unlink the file at the call's
\* cache path if one exists (the unlink itself may fail), then re-raise.
CleanupAndRaise(c, cache_key, err) ==
    /\ \E unlink_ok \in BOOLEAN :
          /\ ~Exists(cache, cache_key) => unlink_ok
          /\ IF Exists(cache, cache_key) /\ unlink_ok
             THEN /\ cache' = [cache EXCEPT ![cache_key] = NoFile]
                  /\ removed' = removed \cup {cache_key}
             ELSE UNCHANGED <<cache, removed>>
          /\ unlink_failed' =
                IF unlink_ok THEN unlink_failed ELSE unlink_failed \cup {c}
    /\ Finish(c, err)

\* Mutant: the manager instance is obtained before the cache is consulted.
ServeHit_Eager(c, cache_key) ==
    /\ Finish(c, Response(AudioUrl(cache_key), TRUE))
    /\ instance' = TRUE
    /\ UNCHANGED <<pipeline, is_loading, initialization_error, lock_holder,
                   lock_waiters, cache, gp_out, ghosts>>

\* The cache-hit return of generate_tts_audio.
ServeHit(c, cache_key) ==
    /\ Finish(c, Response(AudioUrl(cache_key), TRUE))
    /\ UNCHANGED <<manager, cache, gp_out, ghosts>>

\* What a call does with the outcome of get_pipeline(): stay suspended,
\* return it (warmup), submit generate() to the worker pool or fail
\* (_generate_audio_sync and generate_tts_audio).
Proceed(c, r, out) ==
    /\ gp_out' = [gp_out EXCEPT ![c] = out]
    /\ waited' = IF out.kind = "wait_lock" THEN waited \cup {c} ELSE waited
    /\ IF Suspended(out)
       THEN /\ pc' = [pc EXCEPT ![c] = out.kind]
            /\ UNCHANGED <<result, cache, removed, unlink_failed,
                           pool_submits>>
       ELSE IF r.op = "warmup"
       THEN /\ Finish(c, IF out.kind = "handle"
                         THEN Response("warmed_up", FALSE)
                         ELSE Raised(out.kind))
            /\ UNCHANGED <<cache, removed, unlink_failed, pool_submits>>
       ELSE IF out.kind = "handle"
       THEN /\ pc' = [pc EXCEPT ![c] = "synth"]
            /\ pool_submits' = pool_submits \cup {c}
            /\ UNCHANGED <<result, cache, removed, unlink_failed>>
       ELSE /\ CleanupAndRaise(
                 c, _generate_cache_key(r.text, ResolveVoice(r.voice_id)),
                 Raised(SurfacedError(out.kind)))
            /\ UNCHANGED pool_submits

\* A create_tts request is inside its handler's first stretch: the sweep is
\* a coroutine that never suspends, so no other coroutine runs until the
\* request's generate_tts_audio reaches a suspension point or returns.
InHandler(c) == req[c].op = "create_tts" /\ pc[c] = "idle"

\* The event loop is free to run another coroutine.
EventLoopFree == \A d \in DOMAIN pc : ~InHandler(d)

\* Calls are numbered in the order in which they arrive.
MayStart(c) ==
    /\ pc[c] = "idle"
    /\ ~InHandler(c)
    /\ IF c = 1 THEN TRUE ELSE pc[c - 1] # "idle"

Arrive(c, r) ==
    /\ req' = [req EXCEPT ![c] = r]
    /\ before' = [before EXCEPT ![c] = {d \in DOMAIN pc : pc[d] = "done"}]

\* generate_tts_audio(text, voice_id) up to its first suspension point:
\* validation, voice resolution, key, mkdir, cache lookup and, on a miss,
\* the entry of get_tts_pipeline().
Generate(c, text, voice_id) ==
    /\ UNCHANGED evictor
    /\ LET r == [op |-> "generate", text |-> text, voice_id |-> voice_id]
           cache_key == _generate_cache_key(text, ResolveVoice(voice_id))
       IN  /\ Arrive(c, r)
           /\ UNCHANGED <<settings, search, pipeline, initialization_error,
                          engine_calls>>
           /\ IF TextTooLong(text)
              THEN /\ Finish(c, TextTooLongError(text))
                   /\ UNCHANGED <<instance, is_loading, lock_holder,
                                  lock_waiters, cache_dir_exists, cache,
                                  gp_out, load_by, waited, pool_submits,
                                  removed, unlink_failed>>
              ELSE \E mkdir_ok \in BOOLEAN :
                     /\ cache_dir_exists => mkdir_ok
                     /\ IF ~mkdir_ok
                        THEN /\ Finish(c, Raised("OSError"))
                             /\ UNCHANGED <<instance, is_loading, lock_holder,
                                            lock_waiters, cache_dir_exists,
                                            cache, gp_out, load_by, waited,
                                            pool_submits, removed,
                                            unlink_failed>>
                        ELSE /\ cache_dir_exists' = TRUE
                             /\ IF Exists(cache, cache_key)
                                THEN ServeHit(c, cache_key)
                                ELSE LET g == GetPipelineEntry(c)
                                     IN  /\ instance' = TRUE
                                         /\ SetManager(g)
                                         /\ Proceed(c, r, g.out)

\* Mutant: the warm-up loads the engine whatever the lazy-load setting.
StartWarmup_ForcesLoad(c) ==
    /\ MayStart(c)
    /\ UNCHANGED evictor
    /\ LET r == [op |-> "warmup", text |-> "", voice_id |-> ""]
           g == GetPipelineEntry_NoLazyCheck(c)
       IN  /\ Arrive(c, r)
           /\ instance' = TRUE
           /\ SetManager(g)
           /\ Proceed(c, r, g.out)
           /\ UNCHANGED <<settings, search, pipeline, initialization_error,
                          cache_dir_exists, engine_calls>>

\* A call of generate_tts_audio arrives.
StartGenerate(c, text, voice_id) ==
    /\ MayStart(c)
    /\ Generate(c, text, voice_id)

\* warmup_tts_model() up to its first suspension point.
StartWarmup(c) ==
    /\ MayStart(c)
    /\ UNCHANGED evictor
    /\ LET r == [op |-> "warmup", text |-> "", voice_id |-> ""]
           g == GetPipelineEntry(c)
       IN  /\ Arrive(c, r)
           /\ instance' = TRUE
           /\ SetManager(g)
           /\ Proceed(c, r, g.out)
           /\ UNCHANGED <<settings, search, pipeline, initialization_error,
                          cache_dir_exists, engine_calls>>

\* A call suspended inside get_pipeline() runs again: it is handed the lock,
\* or it wakes from asyncio.sleep in the wait loop.
ResumeGetPipeline(c) ==
    /\ EventLoopFree
    /\ req[c].op \in {"generate", "warmup"}
    /\ UNCHANGED <<settings, search, instance, pipeline, initialization_error,
                   cache_dir_exists, req, before, engine_calls, evictor>>
    /\ IF pc[c] = "wait_lock"
       THEN /\ lock_holder = NoOne
            /\ Head(lock_waiters) = c
            /\ LET g == LockedSection(c, Tail(lock_waiters))
               IN  SetManager(g) /\ Proceed(c, req[c], g.out)
       ELSE /\ pc[c] = "polling"
            /\ ~is_loading
            /\ SetManager([is_loading |-> is_loading, holder |-> NoOne,
                           waiters |-> lock_waiters, loads |-> load_by])
            /\ Proceed(c, req[c], AfterPolling)

\* _load_pipeline_sync returned a pipeline: the loader stores it, clears
\* _is_loading and leaves the lock.
LoadSucceeds(c) ==
    /\ EventLoopFree
    /\ pc[c] = "loading"
    /\ UNCHANGED evictor
    /\ pipeline' = Cardinality(load_by)
    /\ SetManager([is_loading |-> FALSE, holder |-> NoOne,
                   waiters |-> lock_waiters, loads |-> load_by])
    /\ Proceed(c, req[c], Handle(pipeline'))
    /\ UNCHANGED <<settings, search, instance, initialization_error,
                   cache_dir_exists, req, before, engine_calls>>

\* Mutant: the loader keeps the lock when the load fails.
LoadFails_KeepsLock(c) ==
    /\ EventLoopFree
    /\ pc[c] = "loading"
    /\ UNCHANGED evictor
    /\ initialization_error' = "TTSGenerationError"
    /\ SetManager([is_loading |-> FALSE, holder |-> c,
                   waiters |-> lock_waiters, loads |-> load_by])
    /\ Proceed(c, req[c], Outcome("TTSGenerationError"))
    /\ UNCHANGED <<settings, search, instance, pipeline, cache_dir_exists, req,
                   before, engine_calls>>

\* _load_pipeline_sync raised (TTSGenerationError): the loader records the
\* error, clears _is_loading, leaves the lock and re-raises.
LoadFails(c) ==
    /\ EventLoopFree
    /\ pc[c] = "loading"
    /\ UNCHANGED evictor
    /\ initialization_error' = "TTSGenerationError"
    /\ SetManager([is_loading |-> FALSE, holder |-> NoOne,
                   waiters |-> lock_waiters, loads |-> load_by])
    /\ Proceed(c, req[c], Outcome("TTSGenerationError"))
    /\ UNCHANGED <<settings, search, instance, pipeline, cache_dir_exists, req,
                   before, engine_calls>>

(* ------------- cleanup_tts_model and is_tts_model_ready ---------------- *)

\* Mutant: the release also forgets the recorded failure.
ReleaseLocked_ClearsError(c) ==
    /\ pipeline' = NoPipeline
    /\ initialization_error' = NoError
    /\ Finish(c, Response("released", FALSE))
    /\ UNCHANGED <<settings, search, is_loading, lock_holder, cache_dir_exists,
                   cache, gp_out, ghosts, evictor>>

\* TTSModelManager.cleanup() with the lock held: drop the pipeline, if any,
\* and leave the lock.
ReleaseLocked(c) ==
    /\ pipeline' = NoPipeline
    /\ Finish(c, Response("released", FALSE))
    /\ UNCHANGED <<settings, search, is_loading, initialization_error,
                   lock_holder, cache_dir_exists, cache, gp_out, ghosts,
                   evictor>>

\* cleanup_tts_model() up to its first suspension point: get_instance(), then
\* cleanup() takes the lock or queues for it.
StartRelease(c) ==
    /\ MayStart(c)
    /\ Arrive(c, [op |-> "release", text |-> "", voice_id |-> ""])
    /\ instance' = TRUE
    /\ IF lock_holder = NoOne /\ lock_waiters = <<>>
       THEN /\ ReleaseLocked(c)
            /\ UNCHANGED lock_waiters
       ELSE /\ lock_waiters' = Append(lock_waiters, c)
            /\ pc' = [pc EXCEPT ![c] = "wait_lock"]
            /\ UNCHANGED <<settings, search, pipeline, is_loading,
                           initialization_error, lock_holder,
                           cache_dir_exists, cache, result, gp_out, ghosts,
                           evictor>>

\* cleanup() is handed the lock.
ResumeRelease(c) ==
    /\ EventLoopFree
    /\ pc[c] = "wait_lock"
    /\ req[c].op = "release"
    /\ lock_holder = NoOne
    /\ Head(lock_waiters) = c
    /\ lock_waiters' = Tail(lock_waiters)
    /\ ReleaseLocked(c)
    /\ UNCHANGED <<instance, req, before>>

\* is_tts_model_ready(): False without an instance, else is_initialized().
is_tts_model_ready == instance /\ pipeline # NoPipeline

\* Mutant: the probe obtains the manager through get_instance().
StartIsReady_GetInstance(c) ==
    /\ MayStart(c)
    /\ Arrive(c, [op |-> "is_ready", text |-> "", voice_id |-> ""])
    /\ instance' = TRUE
    /\ Finish(c, Response(IF is_tts_model_ready THEN "ready"
                          ELSE "not_loaded", FALSE))
    /\ UNCHANGED <<settings, search, pipeline, is_loading, initialization_error,
                   lock_holder, lock_waiters, cache_dir_exists, cache,
                   gp_out, ghosts, evictor>>

\* The health endpoint with TTS enabled: it reports is_tts_model_ready().
StartIsReady(c) ==
    /\ MayStart(c)
    /\ Arrive(c, [op |-> "is_ready", text |-> "", voice_id |-> ""])
    /\ Finish(c, Response(IF is_tts_model_ready THEN "ready"
                          ELSE "not_loaded", FALSE))
    /\ UNCHANGED <<settings, search, manager, cache_dir_exists, cache, gp_out,
                   ghosts, evictor>>

(* ------------------ generate() on the worker pool thread --------------- *)

\* Mutant: the file is opened before the engine is run, and is left empty
\* when the engine fails.
SynthFails_FileFirst(c) ==
    /\ EventLoopFree
    /\ pc[c] = "synth"
    /\ UNCHANGED evictor
    /\ engine_calls' = engine_calls \cup {c}
    /\ cache' = [cache EXCEPT ![KeyOf(c)] =
                    [state |-> "partial", by |-> c,
                     opened |-> cache[KeyOf(c)].opened \cup {c},
                     wrote |-> {c}, st_mtime |-> now, st_size |-> 0]]
    /\ \E message \in SynthFailures : Finish(c, GenerationFailed(message))
    /\ UNCHANGED <<removed, unlink_failed>>
    /\ UNCHANGED <<settings, search, manager, cache_dir_exists, req, gp_out,
                   before, load_by, waited, pool_submits>>

\* The engine raises, or it yields no chunk: TTSGenerationError, and nothing
\* was written.
SynthFails(c) ==
    /\ EventLoopFree
    /\ pc[c] = "synth"
    /\ UNCHANGED evictor
    /\ engine_calls' = engine_calls \cup {c}
    /\ \E message \in SynthFailures :
          CleanupAndRaise(c, KeyOf(c), GenerationFailed(message))
    /\ UNCHANGED <<settings, search, manager, cache_dir_exists, req, gp_out,
                   before, load_by, waited, pool_submits>>

\* The engine yields audio and sf.write opens the cache path for writing
\* (create or truncate): the file exists from here on, holding only what
\* this call has written so far.  Calls that had the path open keep their
\* descriptors on the same file.
WriteBegins(c) ==
    /\ pc[c] = "synth"
    /\ UNCHANGED evictor
    /\ engine_calls' = engine_calls \cup {c}
    /\ cache' = [cache EXCEPT ![KeyOf(c)] =
                    [state |-> "partial", by |-> c,
                     opened |-> cache[KeyOf(c)].opened \cup {c},
                     wrote |-> {c}, st_mtime |-> now, st_size |-> 0]]
    /\ pc' = [pc EXCEPT ![c] = "writing"]
    /\ UNCHANGED <<settings, search, manager, cache_dir_exists, req, result,
                   gp_out, before, load_by, waited, pool_submits, removed,
                   unlink_failed>>

\* sf.write returns: the rest of the samples and the final header went
\* through this call's descriptor.  They are in the file at the path if it
\* is still the file this call opened, and the file is complete if no other
\* call truncated it since; generate_tts_audio returns cached=False.
WriteCompletes(c) ==
    /\ pc[c] = "writing"
    /\ UNCHANGED evictor
    /\ cache' = IF c \in cache[KeyOf(c)].opened
                THEN [cache EXCEPT
                        ![KeyOf(c)].state =
                            IF cache[KeyOf(c)].by = c THEN "complete" ELSE @,
                        ![KeyOf(c)].wrote = @ \cup {c},
                        ![KeyOf(c)].st_mtime = now,
                        ![KeyOf(c)].st_size = AudioSize]
                ELSE cache
    /\ Finish(c, Response(AudioUrl(KeyOf(c)), FALSE))
    /\ UNCHANGED <<settings, search, manager, cache_dir_exists, req, gp_out,
                   before, ghosts>>

\* sf.write raises part-way: TTSGenerationError, with the file left behind
\* for the except block of generate_tts_audio.
WriteFails(c) ==
    /\ EventLoopFree
    /\ pc[c] = "writing"
    /\ UNCHANGED evictor
    /\ CleanupAndRaise(c, KeyOf(c), GenerationFailed(""))
    /\ UNCHANGED <<settings, search, manager, cache_dir_exists, req, gp_out,
                   before, load_by, waited, engine_calls, pool_submits>>

(* ----------------------- cleanup_old_cache_files ----------------------- *)

\* cache_dir.glob("*.wav")
Present(files) == {k \in DOMAIN files : Exists(files, k)}

\* get_cache_files_by_age: the (path, mtime) pairs of the files present,
\* sorted by mtime; files with equal mtime come in directory order, which is
\* any order.
get_cache_files_by_age(files) ==
    LET n == Cardinality(Present(files))
        orders == {o \in [1..n -> Present(files)] :
                     /\ \A i, j \in 1..n : i # j => o[i] # o[j]
                     /\ \A i, j \in 1..n :
                           i < j => files[o[i]].st_mtime <= files[o[j]].st_mtime}
    IN  {[i \in 1..n |-> <<o[i], files[o[i]].st_mtime>>] : o \in orders}

RECURSIVE SumSizes(_, _)
SumSizes(files, keys) ==
    IF keys = {} THEN 0
    ELSE LET k == CHOOSE x \in keys : TRUE
         IN  files[k].st_size + SumSizes(files, keys \ {k})

\* get_cache_size_bytes: total of stat().st_size over the files present.
get_cache_size_bytes(files) == SumSizes(files, Present(files))

\* files.remove((file_path, mtime))
ListRemove(list, e) == SelectSeq(list, LAMBDA x : x # e)

\* Mutant: the age test is not strict.
Expired_AtBound(current_time, mtime) == current_time - mtime >= ttl_seconds

\* if current_time - mtime > ttl_seconds
Expired(current_time, mtime) == current_time - mtime > ttl_seconds

\* Mutant: the size test is not strict.
OverSize_AtBound(sw) == sw.current_size >= max_size_bytes /\ sw.files # <<>>

\* while current_size > max_size_bytes and files
OverSize(sw) == sw.current_size > max_size_bytes /\ sw.files # <<>>

SweepFrame ==
    UNCHANGED <<settings, search, manager, cache_dir_exists, calls, load_by,
                waited, engine_calls, pool_submits, unlink_failed, now>>

\* file_path.unlink() in either pass: it removes the file, or raises OSError
\* (always when the file is gone) and the warning is logged.
SweepUnlink(k, ok) ==
    /\ ~Exists(cache, k) => ~ok
    /\ IF ok
       THEN /\ cache' = [cache EXCEPT ![k] = NoFile]
            /\ removed' = removed \cup {k}
       ELSE UNCHANGED <<cache, removed>>

Returned(removed_count, failed) ==
    [removed_count |-> removed_count, failed |-> failed]

\* cleanup_old_cache_files up to the age pass: return 0 without a cache
\* directory, else read the clock and list the files.
SweepBegin ==
    IF ~cache_dir_exists
    THEN sweep' = [sweep EXCEPT !.pc = "done", !.removed_count = 0,
                                !.returned = Append(@, Returned(0, {})),
                                !.current_time = now, !.at_start = cache,
                                !.failed = {}, !.age_tried = <<>>,
                                !.size_tried = <<>>]
    ELSE \E l \in get_cache_files_by_age(cache) :
           sweep' = [pc |-> "age", current_time |-> now, files |-> l,
                     todo |-> l, current_size |-> 0, removed_count |-> 0,
                     returned |-> sweep.returned, at_start |-> cache,
                     failed |-> {}, age_tried |-> <<>>,
                     size_tried |-> <<>>]

\* A run of cleanup_old_cache_files starts on its own.
SweepStart ==
    /\ sweep.pc \in {"idle", "done"}
    /\ Len(sweep.returned) < MaxSweeps
    /\ SweepBegin
    /\ UNCHANGED <<cache, removed>>
    /\ SweepFrame

\* Mutant: a removal that raised is counted as a removal.
SweepAgeStep_CountsAttempts ==
    /\ sweep.pc = "age"
    /\ sweep.todo # <<>>
    /\ LET e == Head(sweep.todo)
       IN  IF Expired(sweep.current_time, e[2])
           THEN \E ok \in BOOLEAN :
                  /\ SweepUnlink(e[1], ok)
                  /\ sweep' =
                        IF ok
                        THEN [sweep EXCEPT
                                !.todo = Tail(@),
                                !.files = ListRemove(@, e),
                                !.removed_count = @ + 1,
                                !.age_tried = Append(@, e[1])]
                        ELSE [sweep EXCEPT
                                !.todo = Tail(@),
                                !.removed_count = @ + 1,
                                !.failed = @ \cup {e[1]},
                                !.age_tried = Append(@, e[1])]
           ELSE /\ sweep' = [sweep EXCEPT !.todo = Tail(@)]
                /\ UNCHANGED <<cache, removed>>
    /\ SweepFrame

\* One iteration of the age pass over files[:].
SweepAgeStep ==
    /\ sweep.pc = "age"
    /\ sweep.todo # <<>>
    /\ LET e == Head(sweep.todo)
       IN  IF Expired(sweep.current_time, e[2])
           THEN \E ok \in BOOLEAN :
                  /\ SweepUnlink(e[1], ok)
                  /\ sweep' =
                        IF ok
                        THEN [sweep EXCEPT
                                !.todo = Tail(@),
                                !.files = ListRemove(@, e),
                                !.removed_count = @ + 1,
                                !.age_tried = Append(@, e[1])]
                        ELSE [sweep EXCEPT
                                !.todo = Tail(@),
                                !.failed = @ \cup {e[1]},
                                !.age_tried = Append(@, e[1])]
           ELSE /\ sweep' = [sweep EXCEPT !.todo = Tail(@)]
                /\ UNCHANGED <<cache, removed>>
    /\ SweepFrame

\* current_size = get_cache_size_bytes(cache_dir), after the age pass.
SweepMeasure ==
    /\ sweep.pc = "age"
    /\ sweep.todo = <<>>
    /\ sweep' = [sweep EXCEPT !.pc = "size",
                              !.current_size = get_cache_size_bytes(cache)]
    /\ UNCHANGED <<cache, removed>>
    /\ SweepFrame

\* Mutant: the newest entry is taken instead of the oldest.
Pop0_Newest(list) ==
    [e |-> list[Len(list)], rest |-> SubSeq(list, 1, Len(list) - 1)]

\* file_path, _ = files.pop(0)
Pop0(list) == [e |-> Head(list), rest |-> Tail(list)]

\* One iteration of the size pass: files.pop(0), stat, unlink.
SweepSizeStep ==
    /\ sweep.pc = "size"
    /\ OverSize(sweep)
    /\ LET p == Pop0(sweep.files)
       IN  \E ok \in BOOLEAN :
             /\ SweepUnlink(p.e[1], ok)
             /\ sweep' =
                   IF ok
                   THEN [sweep EXCEPT
                           !.files = p.rest,
                           !.current_size = @ - cache[p.e[1]].st_size,
                           !.removed_count = @ + 1,
                           !.size_tried = Append(@, p.e[1])]
                   ELSE [sweep EXCEPT
                           !.files = p.rest,
                           !.failed = @ \cup {p.e[1]},
                           !.size_tried = Append(@, p.e[1])]
    /\ SweepFrame

\* Mutant: the size pass may stop while the cache is over the bound.
SweepReturn_Early ==
    /\ sweep.pc = "size"
    /\ sweep' = [sweep EXCEPT
                   !.pc = "done",
                   !.returned =
                       Append(@, Returned(sweep.removed_count, sweep.failed))]
    /\ UNCHANGED <<cache, removed>>
    /\ SweepFrame

\* return removed_count
SweepReturn ==
    /\ sweep.pc = "size"
    /\ ~OverSize(sweep)
    /\ sweep' = [sweep EXCEPT
                   !.pc = "done",
                   !.returned =
                       Append(@, Returned(sweep.removed_count, sweep.failed))]
    /\ UNCHANGED <<cache, removed>>
    /\ SweepFrame

\* The clock advances between two runs.
Tick ==
    /\ sweep.pc \in {"idle", "done"}
    /\ now < StartTime + MaxTicks
    /\ now' = now + 1
    /\ UNCHANGED <<settings, search, manager, cache_dir_exists, cache, calls,
                   ghosts, sweep>>

\* The mtimes and sizes of the files an earlier run left: one second past
\* the maximum age, at it, and one second short of it.
Mtimes ==
    {StartTime - ttl_seconds - 1, StartTime - ttl_seconds,
     StartTime - ttl_seconds + 1}

Sizes == {AudioSize, max_size_bytes}

\* The evictor alone, over every cache an earlier run can have left.
SweepInit ==
    /\ tts_lazy_load = TRUE
    /\ InitManager
    /\ cache \in [Keys -> {NoFile} \cup
                     {StoredFile(m, sz) : m \in Mtimes, sz \in Sizes}]
    /\ cache_dir_exists \in BOOLEAN
    /\ Present(cache) # {} => cache_dir_exists
    /\ InitCalls(Callers)
    /\ InitEvictor
    /\ InitRouters

SweepNext ==
    \/ SweepStart
    \/ SweepAgeStep
    \/ SweepMeasure
    \/ SweepSizeStep
    \/ SweepReturn
    \/ Tick

SweepSpec == SweepInit /\ [][SweepNext]_vars

\* The manager alone: warm-ups, readiness probes and releases.
LifecycleInit ==
    /\ tts_lazy_load \in BOOLEAN
    /\ InitManager
    /\ cache_dir_exists = TRUE
    /\ cache = [k \in Keys |-> NoFile]
    /\ InitCalls(LifecycleCallers)
    /\ InitEvictor
    /\ InitRouters

LifecycleNext ==
    \E c \in LifecycleCallers :
        \/ StartWarmup(c)
        \/ StartRelease(c)
        \/ StartIsReady(c)
        \/ ResumeGetPipeline(c)
        \/ ResumeRelease(c)
        \/ LoadSucceeds(c)
        \/ LoadFails(c)

LifecycleSpec == LifecycleInit /\ [][LifecycleNext]_vars

\* The event loop runs every coroutine that can run (a waiter is handed the
\* lock once it is free and at the head of the queue), and every
\* _load_pipeline_sync submitted to the executor returns or raises.
LifecycleFairness ==
    \A c \in LifecycleCallers :
        /\ WF_vars(ResumeGetPipeline(c))
        /\ WF_vars(ResumeRelease(c))
        /\ WF_vars(LoadSucceeds(c) \/ LoadFails(c))

LifecycleLiveSpec == LifecycleSpec /\ LifecycleFairness

(* ----------------------- routers/tts.py endpoints ---------------------- *)
\* Requests the rate limiter admits and the TTSRequest schema accepts.

\* f"{settings.audio_base_url}/{tts_request.mystery_id}.wav"
PregeneratedUrl(mystery_id) == audio_base_url \o "/" \o mystery_id \o ".wav"

\* Mutant: the handler calls generate_tts_audio without sweeping first.
CreateTts_NoSweep(c, mystery_id, text, voice_id) ==
    IF ~tts_enabled
    THEN /\ MayStart(c)
         /\ Arrive(c, [op |-> "create_tts", text |-> text,
                       voice_id |-> voice_id, mystery_id |-> mystery_id])
         /\ Finish(c, Response(PregeneratedUrl(mystery_id), TRUE))
         /\ UNCHANGED <<settings, search, manager, cache_dir_exists, cache,
                        gp_out, ghosts, evictor>>
    ELSE StartGenerate(c, text, voice_id)

\* create_tts up to the first step of cleanup_old_cache_files: with TTS
\* disabled it answers the pre-generated URL at once, else it starts the
\* sweep.
CreateTts(c, mystery_id, text, voice_id) ==
    /\ MayStart(c)
    /\ Arrive(c, [op |-> "create_tts", text |-> text, voice_id |-> voice_id,
                  mystery_id |-> mystery_id])
    /\ IF ~tts_enabled
       THEN /\ Finish(c, Response(PregeneratedUrl(mystery_id), TRUE))
            /\ UNCHANGED <<settings, search, manager, cache_dir_exists,
                           cache, gp_out, ghosts, evictor>>
       ELSE /\ SweepBegin
            /\ UNCHANGED <<settings, search, manager, cache_dir_exists,
                           cache, pc, result, gp_out, ghosts, now>>

\* create_tts after "await cleanup_old_cache_files()": generate_tts_audio
\* with the fields of the request.
CreateTtsGenerate(c) ==
    /\ InHandler(c)
    /\ sweep.pc = "done"
    /\ Generate(c, req[c].text, req[c].voice_id)

\* Mutant: the warm-up endpoint does not consult settings.tts_enabled.
WarmupEndpoint_IgnoresSetting(c) == StartWarmup(c)

\* POST /api/tts/warmup
WarmupEndpoint(c) ==
    IF ~tts_enabled
    THEN /\ MayStart(c)
         /\ Arrive(c, [op |-> "warmup", text |-> "", voice_id |-> ""])
         /\ Finish(c, Response("disabled", FALSE))
         /\ UNCHANGED <<settings, search, manager, cache_dir_exists, cache,
                        gp_out, ghosts, evictor>>
    ELSE StartWarmup(c)

\* GET /api/tts/health
HealthCheck(c) ==
    IF ~tts_enabled
    THEN /\ MayStart(c)
         /\ Arrive(c, [op |-> "is_ready", text |-> "", voice_id |-> ""])
         /\ Finish(c, Response("disabled", FALSE))
         /\ UNCHANGED <<settings, search, manager, cache_dir_exists, cache,
                        gp_out, ghosts, evictor>>
    ELSE StartIsReady(c)

\* The texts, the voice and the mystery ids of the requests sent.
EndpointTexts == {"a", "a:b"}

EndpointVoiceIds == {"default"}

MysteryIds == {"m-1", "m-2"}

\* The file an earlier run can have left for the key of a request: none,
\* one a second past the maximum age, or one written a second ago, which
\* can fill the cache to its maximum size.
EndpointLeft ==
    {NoFile, StoredFile(StartTime - ttl_seconds - 1, AudioSize),
     StoredFile(StartTime - 1, AudioSize),
     StoredFile(StartTime - 1, max_size_bytes)}

\* The service behind its endpoints, with either setting on or off.
EndpointInit ==
    /\ tts_enabled \in BOOLEAN
    /\ tts_lazy_load \in BOOLEAN
    /\ InitManager
    /\ cache_dir_exists = TRUE
    /\ \E left \in EndpointLeft, t \in EndpointTexts, v \in EndpointVoiceIds :
          cache = [k \in Keys |->
                      IF k = _generate_cache_key(t, ResolveVoice(v))
                      THEN left ELSE NoFile]
    /\ InitCalls(EndpointCallers)
    /\ InitEvictor
    /\ search = NoSearch

\* While a request is inside its handler's first stretch (EventLoopFree is
\* false), only the executor threads make progress; the return of a call
\* whose thread finishes in that stretch is folded into the thread's last
\* step.
EndpointNext ==
    \/ \E c \in EndpointCallers :
          \/ \E mystery_id \in MysteryIds, text \in EndpointTexts,
                voice_id \in EndpointVoiceIds :
                CreateTts(c, mystery_id, text, voice_id)
          \/ CreateTtsGenerate(c)
          \/ WarmupEndpoint(c)
          \/ HealthCheck(c)
          \/ StartRelease(c)
          \/ ResumeGetPipeline(c)
          \/ ResumeRelease(c)
          \/ LoadSucceeds(c)
          \/ LoadFails(c)
          \/ SynthFails(c)
          \/ WriteBegins(c)
          \/ WriteCompletes(c)
          \/ WriteFails(c)
    \/ SweepAgeStep
    \/ SweepMeasure
    \/ SweepSizeStep
    \/ SweepReturn

EndpointSpec == EndpointInit /\ [][EndpointNext]_vars

(* ------------------------- GET /api/search ----------------------------- *)
\* Requests the rate limiter admits.  The database is an external
\* collaborator: a query gives at most "limit" records, or raises.

RECURSIVE Repeat(_)
\* "a" * n
Repeat(n) == IF n = 0 THEN "" ELSE "a" \o Repeat(n - 1)

\* Query strings sent: empty, of the shortest and the longest accepted
\* length, and one character longer.
SearchQs ==
    {"", Repeat(q_min_length), Repeat(q_max_length), Repeat(q_max_length + 1)}

\* Limits sent: the accepted bounds, their neighbours, the default and
\* another accepted value.
SearchLimits ==
    {limit_ge - 1, limit_ge, limit_ge + 1, limit_default, limit_le,
     limit_le + 1}

\* What a client can put in the query string.
SearchParams ==
    {p \in [has_q : BOOLEAN, q : SearchQs, has_limit : BOOLEAN,
            limit : SearchLimits \cup {NoParams.limit}] :
        /\ ~p.has_q => p.q = NoParams.q
        /\ p.has_limit <=> p.limit # NoParams.limit}

\* Mutant: the longest length is taken as exclusive.
QValid_Exclusive(params) ==
    /\ params.has_q
    /\ Len(params.q) >= q_min_length
    /\ Len(params.q) < q_max_length

\* q: str = Query(..., min_length=1, max_length=200): required, and its
\* length within the bounds.
QValid(params) ==
    /\ params.has_q
    /\ Len(params.q) >= q_min_length
    /\ Len(params.q) <= q_max_length

\* limit: int = Query(default=10, ge=1, le=100): a given value is within the
\* bounds; the default is not validated.
LimitValid(params) ==
    params.has_limit => (params.limit >= limit_ge /\ params.limit <= limit_le)

\* The value the handler receives for limit.
LimitOf(params) == IF params.has_limit THEN params.limit ELSE limit_default

\* parameters = {"searchTerm": query, "limit": limit}
SearchParameters(query, limit) == [searchTerm |-> query, limit |-> limit]

\* SearchResponse(query=q, total=len(results), results=results)
SearchResponse(q, results) ==
    [status_code |-> 200, query |-> q, total |-> Len(results),
     results |-> results]

\* A response that carries an error instead of results.
SearchError(status_code) ==
    [NoSearchResponse EXCEPT !.status_code = status_code]

SearchFrame ==
    UNCHANGED <<settings, manager, cache_dir_exists, cache, calls, ghosts,
                evictor>>

\* global_search up to "await execute_read_query": FastAPI validates the
\* query string and answers 422 without calling the handler, or the handler
\* calls search_global, which hands the query to the database.
GlobalSearch(params) ==
    /\ search.pc \in {"idle", "done"}
    /\ search.served < MaxSearches
    /\ IF QValid(params) /\ LimitValid(params)
       THEN search' =
               [search EXCEPT
                   !.pc = "querying", !.served = @ + 1, !.params = params,
                   !.executed =
                       <<SearchParameters(params.q, LimitOf(params))>>,
                   !.records = <<>>, !.response = NoSearchResponse]
       ELSE search' =
               [search EXCEPT
                   !.pc = "done", !.served = @ + 1, !.params = params,
                   !.executed = <<>>, !.records = <<>>,
                   !.response = SearchError(422)]
    /\ SearchFrame

\* execute_read_query returns the records of "... LIMIT $limit", and
\* global_search answers with them.
QueryReturns(n) ==
    /\ search.pc = "querying"
    /\ n <= search.executed[1].limit
    /\ LET records == [i \in 1..n |-> i]
       IN  search' =
               [search EXCEPT
                   !.pc = "done", !.records = records,
                   !.response = SearchResponse(search.params.q, records)]
    /\ SearchFrame

\* execute_read_query: "except Exception" raises HTTPException(500).
QueryFails ==
    /\ search.pc = "querying"
    /\ search' = [search EXCEPT !.pc = "done",
                                !.response = SearchError(500)]
    /\ SearchFrame

SearchInit ==
    /\ tts_lazy_load = TRUE
    /\ InitManager
    /\ cache_dir_exists = TRUE
    /\ cache = [k \in Keys |-> NoFile]
    /\ InitCalls(Callers)
    /\ InitEvictor
    /\ InitRouters

SearchNext ==
    \/ \E params \in SearchParams : GlobalSearch(params)
    \/ \E n \in 0..MaxRecords : QueryReturns(n)
    \/ QueryFails

SearchSpec == SearchInit /\ [][SearchNext]_vars

(* ---------------------------- specification ---------------------------- *)

Next ==
    \E c \in Callers :
        \/ \E text \in Texts, voice_id \in VoiceIds :
              StartGenerate(c, text, voice_id)
        \/ StartWarmup(c)
        \/ ResumeGetPipeline(c)
        \/ LoadSucceeds(c)
        \/ LoadFails(c)
        \/ SynthFails(c)
        \/ WriteBegins(c)
        \/ WriteCompletes(c)
        \/ WriteFails(c)

Spec == Init /\ [][Next]_vars

(* ------------------------------ sanity --------------------------------- *)

TypeOK ==
    /\ tts_lazy_load \in BOOLEAN
    /\ instance \in BOOLEAN
    /\ pipeline \in 0..Cardinality(DOMAIN pc)
    /\ is_loading \in BOOLEAN
    /\ initialization_error \in {NoError, "TTSGenerationError"}
    /\ lock_holder \in {NoOne} \cup DOMAIN pc
    /\ cache_dir_exists \in BOOLEAN
    /\ \A k \in Keys : cache[k].state \in {"absent", "partial", "complete"}
    /\ \A c \in DOMAIN pc :
          pc[c] \in {"idle", "wait_lock", "polling", "loading", "synth",
                      "writing", "done"}

\* The lock is held for the whole of a load, so the wait loop of
\* get_pipeline() is never entered.
LoadHoldsLock ==
    /\ is_loading => lock_holder # NoOne /\ pc[lock_holder] = "loading"
    /\ \A c \in DOMAIN pc : pc[c] # "polling"

(* ------------------------------- claims -------------------------------- *)

Final(out) ==
    out.kind \in {"handle", "TTSModelNotReadyError", "TTSGenerationError"}

\* The calls that were inside get_pipeline() together before any load had
\* succeeded: the ones that started a load or were suspended on the lock.
Overlapping == load_by \cup waited

\* Call c starts in this step.
Starts(c) == pc[c] = "idle" /\ pc'[c] # "idle"

\* Call c, a generate call, raises in this step after its cache lookup
\* missed (every such failure surfaces as TTSGenerationError).
FailsAfterMiss(c) ==
    /\ req'[c].op = "generate"
    /\ result[c].status = "pending"
    /\ result'[c].status = "error"
    /\ result'[c].error = "TTSGenerationError"

\* C1: overlapping first-time get_pipeline() calls invoke the engine
\* initializer once in total: a call that was suspended on the lock while
\* another call was loading never starts a load of its own, whether that
\* load succeeded or failed.
C1_SingleInitialization ==
    /\ Cardinality(load_by) <= 1
    /\ \A c \in waited : c \notin load_by

\* C2: all overlapping first-time get_pipeline() calls observe the same
\* terminal outcome: the same handle, or the same kind of error.
C2_SameOutcome ==
    \A c, d \in Overlapping :
        Final(gp_out[c]) /\ Final(gp_out[d]) => gp_out[c] = gp_out[d]

\* C3: Failed is sticky: once an initialization attempt has failed, no
\* further attempt is started, the pipeline never becomes available, and
\* every get_pipeline() call made from then on fails at once with
\* TTSModelNotReadyError.
C3_FailedIsSticky ==
    [][initialization_error # NoError =>
          /\ load_by' = load_by
          /\ pipeline' = NoPipeline
          /\ \A c \in Callers :
                Starts(c) /\ gp_out'[c] # NotCalled =>
                    gp_out'[c] = Outcome("TTSModelNotReadyError")]_vars

\* C4: no cache entry is visible while incomplete: a call that returns
\* cached=True found a completely written file at its cache path.
C4_HitIsComplete ==
    [][\A c \in Callers :
          Starts(c) /\ result'[c].status = "ok" /\ result'[c].cached =>
              cache[KeyOf(c)'].state = "complete"]_vars

\* C5: the cache key separates (text, voice) pairs: two generate calls
\* compute the same key exactly when their texts are equal and their
\* resolved voice ids are equal.
C5_KeySeparatesPairs ==
    \A c, d \in Callers :
        req[c].op = "generate" /\ req[d].op = "generate" =>
            (KeyOf(c) = KeyOf(d) <=>
                /\ req[c].text = req[d].text
                /\ ResolveVoice(req[c].voice_id) = ResolveVoice(req[d].voice_id))

\* The first call missed and succeeded, the second call was made with the
\* same arguments after the first had returned, and the entry was not
\* removed in between.
Successive(c1, c2) ==
    /\ c1 \in before[c2]
    /\ req[c1].op = "generate" /\ req[c2] = req[c1]
    /\ result[c1].status = "ok" /\ ~result[c1].cached
    /\ KeyOf(c1) \notin removed

\* C6: round trip: generate(text, voice) twice in succession, from a cache
\* without the entry and with nothing removed in between, returns
\* cached=False and then cached=True with the same audio reference, and
\* the engine is invoked once over the two calls.
C6_RoundTrip ==
    \A c1, c2 \in Callers :
        Successive(c1, c2) =>
            /\ result[c2].status = "ok" /\ result[c2].cached
            /\ result[c2].audio_url = result[c1].audio_url
            /\ result[c1].audio_url = AudioUrl(KeyOf(c1))
            /\ c1 \in engine_calls /\ c2 \notin engine_calls

C6_Witness ==
    \E c1, c2 \in Callers :
        Successive(c1, c2) /\ result[c2].cached /\ c2 \notin pool_submits

\* C7: a cache hit does no model or engine work: when the file of the
\* computed key exists, generate_tts_audio returns cached=True without
\* calling get_pipeline(), invoking the engine or using the worker pool,
\* and leaves the cache and the manager as they were, whatever the state
\* of the manager.
C7_HitDoesNoWork ==
    [][\A c \in Callers :
          /\ Starts(c)
          /\ req'[c].op = "generate"
          /\ Len(req'[c].text) <= tts_max_text_length
          /\ cache[KeyOf(c)'].state # "absent"
          => /\ result'[c] = Response(AudioUrl(KeyOf(c)'), TRUE)
             /\ gp_out'[c] = NotCalled
             /\ UNCHANGED <<manager, cache, load_by, engine_calls,
                            pool_submits>>]_vars

\* A hit served while an earlier call is loading the engine.
C7_Witness ==
    \E c, d \in Callers :
        /\ d < c /\ pc[d] = "loading" /\ is_loading
        /\ result[c].status = "ok" /\ result[c].cached
        /\ gp_out[c] = NotCalled

C9_ErrorKindsDistinct ==
    \A c \in Callers :
        req[c].op = "generate" /\ pc[c] = "done" =>
            /\ gp_out[c].kind = "TTSModelNotReadyError" =>
                  result[c].error = "TTSModelNotReadyError"
            /\ result[c].error = "TTSGenerationError" =>
                  gp_out[c].kind = "handle"

\* C10: length validation is exact and comes first: a text of length max is
\* not rejected as too long; a longer text is rejected with
\* TextTooLongError carrying its length and the maximum, and the rejected
\* call touches neither the cache directory, the cache nor the manager.
C10_LengthValidation ==
    [][\A c \in Callers :
          Starts(c) /\ req'[c].op = "generate" =>
              IF Len(req'[c].text) > tts_max_text_length
              THEN /\ pc'[c] = "done"
                   /\ result'[c].error = "TextTooLongError"
                   /\ result'[c].text_length = Len(req'[c].text)
                   /\ result'[c].max_length = tts_max_text_length
                   /\ gp_out'[c] = NotCalled
                   /\ UNCHANGED <<manager, cache_dir_exists, cache, ghosts>>
              ELSE result'[c].error # "TextTooLongError"]_vars

\* A text of length max was served and a text of length max+1 was rejected.
C10_Witness ==
    \E c, d \in Callers :
        /\ Len(req[c].text) = tts_max_text_length
        /\ result[c].status = "ok"
        /\ Len(req[d].text) = tts_max_text_length + 1
        /\ result[d].error = "TextTooLongError"
        /\ result[d].text_length = tts_max_text_length + 1


(* ------------------------- claims on the evictor ----------------------- *)

\* The entries the finished run found when it started.
FoundAtStart == Present(sweep.at_start)

\* Age of an entry the run found, by the clock reading of that run.
AgeAtSweep(k) == sweep.current_time - sweep.at_start[k].st_mtime

\* C11 (as stated): when a run of cleanup_old_cache_files has returned, every
\* entry it found older than the maximum age is gone, and, if the entries it
\* found were together within the size bound, every entry it found of age
\* at most the maximum is still there, untouched.
C11_AgeEviction ==
    sweep.pc = "done" =>
        \A k \in FoundAtStart :
            /\ AgeAtSweep(k) > ttl_seconds => ~Exists(cache, k)
            /\ (/\ AgeAtSweep(k) <= ttl_seconds
                /\ get_cache_size_bytes(sweep.at_start) <= max_size_bytes)
               => cache[k] = sweep.at_start[k]

\* C11 (amended): the same, for the entries older than the maximum age whose
\* removal did not raise.
C11_AgeEvictionUnlessUnlinkFails ==
    sweep.pc = "done" =>
        \A k \in FoundAtStart :
            /\ (AgeAtSweep(k) > ttl_seconds /\ k \notin sweep.failed)
               => ~Exists(cache, k)
            /\ (/\ AgeAtSweep(k) <= ttl_seconds
                /\ get_cache_size_bytes(sweep.at_start) <= max_size_bytes)
               => cache[k] = sweep.at_start[k]

\* A run has returned that found, within the size bound, an entry one second
\* past the maximum age, which it removed, and an entry one second short of
\* it, which it kept.
C11_Witness ==
    /\ sweep.pc = "done"
    /\ get_cache_size_bytes(sweep.at_start) <= max_size_bytes
    /\ \E k1, k2 \in FoundAtStart :
          /\ AgeAtSweep(k1) = ttl_seconds + 1
          /\ ~Exists(cache, k1)
          /\ AgeAtSweep(k2) = ttl_seconds - 1
          /\ cache[k2] = sweep.at_start[k2]


\* The size pass removes entry k in this step.
SizePassRemoves(k) ==
    sweep.pc = "size" /\ Exists(cache, k) /\ ~Exists(cache', k)

\* Entry k2 is in the cache and was modified earlier than entry k.
OlderPresent(k2, k) ==
    Exists(cache, k2) /\ cache[k2].st_mtime < cache[k].st_mtime

\* C12 (as stated): at the moment the size pass removes an entry, no entry
\* with an older last-modified time is still in the cache.
C12_OldestFirst ==
    [][\A k \in Keys :
          SizePassRemoves(k) => \A k2 \in Keys : ~OlderPresent(k2, k)]_vars

\* C12 (amended): at the moment the size pass removes an entry, every older
\* entry still in the cache is one whose removal raised in this run.
C12_OldestFirstUnlessUnlinkFails ==
    [][\A k \in Keys :
          SizePassRemoves(k) =>
              \A k2 \in Keys : OlderPresent(k2, k) => k2 \in sweep.failed]_vars

\* A run without a failed removal has returned after its size pass removed
\* an entry that was within the maximum age and kept a newer one.
C12_Witness ==
    /\ sweep.pc = "done"
    /\ sweep.failed = {}
    /\ \E k, k2 \in FoundAtStart :
          /\ AgeAtSweep(k) <= ttl_seconds
          /\ ~Exists(cache, k)
          /\ Exists(cache, k2)
          /\ sweep.at_start[k].st_mtime < cache[k2].st_mtime


\* The number of runs that have returned.
Runs == Len(sweep.returned)

\* C13 (as stated): no entry is ever added here, so every run after the
\* first removes nothing.
C13_SecondRunRemovesNothing ==
    \A i \in 2..Runs : sweep.returned[i].removed_count = 0

\* C13 (amended): a run removes nothing if it follows a run in which no
\* removal raised and finds no entry older than the maximum age by its own
\* clock reading.
C13_SecondRunRemovesNothingIfSettled ==
    (/\ sweep.pc = "done"
     /\ Runs >= 2
     /\ sweep.returned[Runs - 1].failed = {}
     /\ \A k \in FoundAtStart : AgeAtSweep(k) <= ttl_seconds)
    => sweep.returned[Runs].removed_count = 0

\* Two runs have returned: the first removed entries without a failure and
\* left some in the cache, the second removed none.
C13_Witness ==
    /\ sweep.pc = "done"
    /\ Runs = 2
    /\ sweep.returned[1].removed_count > 0
    /\ sweep.returned[1].failed = {}
    /\ FoundAtStart # {}
    /\ \A k \in FoundAtStart : AgeAtSweep(k) <= ttl_seconds
    /\ sweep.returned[2].removed_count = 0


(* ------------------------- claims on the manager ----------------------- *)

\* Call c enters get_pipeline() in this step, through warmup_tts_model().
StartsGetPipeline(c) == Starts(c) /\ req'[c].op = "warmup"

\* C14: with lazy loading disabled and no pipeline loaded, get_pipeline()
\* raises TTSModelNotReadyError in the step in which it is entered, without
\* starting a load and without changing the pipeline, the loading flag, the
\* recorded error or the lock.
C14_LazyDisabledFailsFast ==
    [][\A c \in DOMAIN pc :
          (StartsGetPipeline(c) /\ ~tts_lazy_load /\ pipeline = NoPipeline)
          => /\ pc'[c] = "done"
             /\ result'[c] = Raised("TTSModelNotReadyError")
             /\ load_by' = load_by
             /\ UNCHANGED <<pipeline, is_loading, initialization_error,
                            lock_holder, lock_waiters>>]_vars

\* With lazy loading disabled a warm-up has failed with
\* TTSModelNotReadyError; no load was started and no error is recorded.
C14_Witness ==
    /\ ~tts_lazy_load
    /\ load_by = {}
    /\ initialization_error = NoError
    /\ \E c \in DOMAIN pc :
          /\ req[c].op = "warmup"
          /\ pc[c] = "done"
          /\ result[c] = Raised("TTSModelNotReadyError")

\* Call c is a readiness probe made in this step.
Probes(c) == Starts(c) /\ req'[c].op = "is_ready"

\* C15: a readiness probe answers in the step in which it is made, "ready"
\* exactly when a pipeline is held, and changes nothing: no instance is
\* created, no load is started, the lock and its queue are untouched.
C15_ProbeIsPure ==
    [][\A c \in DOMAIN pc :
          Probes(c)
          => /\ pc'[c] = "done"
             /\ result'[c].status = "ok"
             /\ (result'[c].audio_url = "ready") <=> (pipeline # NoPipeline)
             /\ UNCHANGED <<instance, pipeline, is_loading,
                            initialization_error, lock_holder, lock_waiters,
                            cache, load_by, waited>>]_vars

\* A probe made while a load was running has answered "not_loaded", and a
\* probe made later has answered "ready".
C15_Witness ==
    \E c, d \in DOMAIN pc :
        /\ req[c].op = "is_ready" /\ req[d].op = "is_ready"
        /\ pc[c] = "done" /\ pc[d] = "done"
        /\ result[c].audio_url = "not_loaded"
        /\ result[d].audio_url = "ready"
        /\ \E e \in load_by : e \notin before[c] /\ e < c

\* Call c is a release that completes in this step.
Releases(c) == req'[c].op = "release" /\ pc[c] # "done" /\ pc'[c] = "done"

\* A release has completed and the manager is at rest without a pipeline:
\* nothing holds or awaits the lock.
AfterRelease ==
    /\ \E c \in DOMAIN pc : req[c].op = "release" /\ pc[c] = "done"
    /\ pipeline = NoPipeline
    /\ lock_holder = NoOne
    /\ lock_waiters = <<>>

\* A release leaves no pipeline and changes neither the recorded error nor
\* the loading flag.
ReleaseClearsOnlyPipeline ==
    \A c \in DOMAIN pc :
        Releases(c) => /\ pipeline' = NoPipeline
                       /\ UNCHANGED <<initialization_error, is_loading>>

\* C16 (as stated): a release clears only the pipeline, and the next
\* get_pipeline() starts a load exactly when no failure is recorded, and
\* raises TTSModelNotReadyError when one is.
C16_ReleaseThenReload ==
    [][/\ ReleaseClearsOnlyPipeline
       /\ \A d \in DOMAIN pc :
             (AfterRelease /\ StartsGetPipeline(d))
             => /\ (d \in load_by') <=> (initialization_error = NoError)
                /\ initialization_error # NoError
                   => result'[d] = Raised("TTSModelNotReadyError")]_vars

\* C16 (amended): the same, with the load started exactly when no failure is
\* recorded and lazy loading is enabled, and TTSModelNotReadyError raised
\* otherwise.
C16_ReleaseThenReloadIfLazy ==
    [][/\ ReleaseClearsOnlyPipeline
       /\ \A d \in DOMAIN pc :
             (AfterRelease /\ StartsGetPipeline(d))
             => /\ (d \in load_by')
                   <=> (initialization_error = NoError /\ tts_lazy_load)
                /\ d \notin load_by'
                   => result'[d] = Raised("TTSModelNotReadyError")]_vars

\* A pipeline was loaded, a release dropped it, and the warm-up that came
\* next has started a second load.
C16_Witness ==
    \E c, d \in DOMAIN pc :
        /\ req[c].op = "release" /\ pc[c] = "done"
        /\ \E e \in before[c] : gp_out[e].kind = "handle"
        /\ req[d].op = "warmup" /\ d = c + 1
        /\ c \in before[d]
        /\ d \in load_by
        /\ initialization_error = NoError


(* ----------------------- claims on generate, continued ------------------ *)

\* Calls c and d are generate calls for the same text and resolved voice
\* that both missed the cache and both returned a freshly written file.
BothWrote(c, d) ==
    /\ c # d
    /\ req[c].op = "generate" /\ req[d].op = "generate"
    /\ req[c].text = req[d].text
    /\ ResolveVoice(req[c].voice_id) = ResolveVoice(req[d].voice_id)
    /\ pc[c] = "done" /\ pc[d] = "done"
    /\ result[c].status = "ok" /\ ~result[c].cached
    /\ result[d].status = "ok" /\ ~result[d].cached

\* No other call is at work on the key of call c, and no file was ever
\* removed from it.
KeyAtRest(c) ==
    /\ KeyOf(c) \notin removed
    /\ \A e \in DOMAIN pc :
          (req[e].op = "generate" /\ KeyOf(e) = KeyOf(c)) => pc[e] = "done"

\* C17: when two generate calls for the same text and voice both missed and
\* both wrote, the file under their key is complete, holds the bytes of one
\* writer only, and both calls returned the same URL.
C17_ConcurrentMissesBenign ==
    \A c, d \in Callers :
        (BothWrote(c, d) /\ KeyAtRest(c))
        => /\ cache[KeyOf(c)].state = "complete"
           /\ Cardinality(cache[KeyOf(c)].wrote) = 1
           /\ cache[KeyOf(c)].wrote \subseteq {c, d}
           /\ result[c].audio_url = result[d].audio_url

\* The voice ids that stand for the configured default voice.
DefaultVoiceIds == {"", "default", tts_default_voice}

\* C18: generate calls for one text whose voice id is empty, "default" or
\* the configured default voice have the same key, so when one of them has
\* returned a file that was not removed since, a later one of them is a hit
\* on it: the same URL with cached = TRUE.
C18_DefaultVoiceSameKey ==
    \A c, d \in Callers :
        (/\ req[c].op = "generate" /\ req[d].op = "generate"
         /\ req[c].text = req[d].text
         /\ req[c].voice_id \in DefaultVoiceIds
         /\ req[d].voice_id \in DefaultVoiceIds)
        => /\ KeyOf(c) = KeyOf(d)
           /\ (/\ c \in before[d]
               /\ result[c].status = "ok"
               /\ pc[d] = "done"
               /\ KeyOf(c) \notin removed)
              => result[d] = Response(result[c].audio_url, TRUE)

\* A call with voice id "default" wrote a file and a later call for the same
\* text with the empty voice id was a hit on it.
C18_Witness ==
    \E c, d \in Callers :
        /\ req[c].op = "generate" /\ req[d].op = "generate"
        /\ req[c].text = req[d].text
        /\ req[c].voice_id = "default" /\ req[d].voice_id = ""
        /\ c \in before[d]
        /\ result[c].status = "ok" /\ ~result[c].cached
        /\ result[d] = Response(result[c].audio_url, TRUE)

\* The engine yields no chunk for generate call c, which raises in this step.
YieldsNothing(c) ==
    /\ req'[c].op = "generate"
    /\ result[c].status = "pending"
    /\ result'[c].message = "No audio chunks generated"

\* C19: a generate call for which the engine yields no chunk raises
\* TTSGenerationError, has written nothing, and leaves the cache as it found
\* it: the other keys untouched and its own key without a file, or with the
\* file another call put there untouched.
C19_NoChunksWritesNothing ==
    [][\A c \in Callers :
          YieldsNothing(c)
          => /\ result'[c].status = "error"
             /\ result'[c].error = "TTSGenerationError"
             /\ \A k \in Keys :
                   /\ c \notin cache[k].wrote \cup cache[k].opened
                   /\ c \notin cache'[k].wrote \cup cache'[k].opened
                   /\ k # KeyOf(c) => cache'[k] = cache[k]
             /\ cache'[KeyOf(c)] \in {NoFile, cache[KeyOf(c)]}]_vars

\* The engine was run for a call and yielded nothing; the call has raised
\* and there is no file under its key.
C19_Witness ==
    \E c \in Callers :
        /\ pc[c] = "done"
        /\ c \in engine_calls
        /\ result[c] = GenerationFailed("No audio chunks generated")
        /\ cache[KeyOf(c)] = NoFile

\* The error kinds of the service's taxonomy.
Taxonomy ==
    {"TextTooLongError", "TTSModelNotReadyError", "TTSGenerationError",
     "StorageError"}

\* C20: every generate call that fails raises an error of the taxonomy.
C20_OnlyTaxonomyErrors ==
    \A c \in Callers :
        (req[c].op = "generate" /\ result[c].status = "error")
        => result[c].error \in Taxonomy


(* ---------------------- claims on concurrent calls --------------------- *)

\* Call c wrote a file and returned it; call d, for the same key, failed;
\* every call is over.
OneWroteOneFailed(c, d) ==
    /\ c # d
    /\ req[c].op = "generate" /\ req[d].op = "generate"
    /\ KeyOf(c) = KeyOf(d)
    /\ result[c].status = "ok" /\ ~result[c].cached
    /\ result[d].status = "error"
    /\ \A e \in DOMAIN pc : pc[e] \in {"idle", "done"}

\* C23: when one of two generate calls for a key wrote its file and the
\* other failed, the file is still there once both are over.
C23_FailureSparesGoodResult ==
    \A c, d \in Callers : OneWroteOneFailed(c, d) => Exists(cache, KeyOf(c))

\* Generate call c returns successfully in this step.
ReturnsOk(c) ==
    /\ req'[c].op = "generate"
    /\ result[c].status = "pending"
    /\ result'[c].status = "ok"

\* C24: at the moment a generate call returns successfully, fresh or from
\* the cache, the file at the path of the returned URL is complete.
C24_ReturnedFileIsComplete ==
    [][\A c \in Callers :
          ReturnsOk(c) =>
              /\ result'[c].audio_url = AudioUrl(KeyOf(c)')
              /\ cache'[KeyOf(c)'].state = "complete"]_vars

\* C25: the manager never holds a pipeline and a recorded initialization
\* error at the same time.
C25_PipelineXorError ==
    ~(pipeline # NoPipeline /\ initialization_error # NoError)


(* -------------------- claims on the evictor, continued ----------------- *)

\* C27: a run in which no removal raised returns with the files left within
\* the size bound, or with none left; and the size pass removes a file only
\* while the files in the cache exceed the bound.
C27_SizePassExact ==
    [][/\ (sweep'.pc = "done" /\ sweep'.failed = {})
          => \/ get_cache_size_bytes(cache') <= max_size_bytes
             \/ Present(cache') = {}
       /\ \A k \in Keys :
             SizePassRemoves(k)
             => get_cache_size_bytes(cache) > max_size_bytes]_vars

\* A run without a failed removal found more than the bound, removed one
\* entry and returned with exactly the bound left.
C27_Witness ==
    /\ sweep.pc = "done"
    /\ sweep.failed = {}
    /\ get_cache_size_bytes(sweep.at_start) > max_size_bytes
    /\ get_cache_size_bytes(cache) = max_size_bytes
    /\ sweep.returned[Runs].removed_count = 1

\* The elements of a sequence.
Range(seq) == {seq[i] : i \in 1..Len(seq)}

\* No element occurs twice in the sequence.
NoRepeat(seq) == \A i, j \in 1..Len(seq) : seq[i] = seq[j] => i = j

\* The entries the run found that are no longer in the cache.
GoneSinceStart == {k \in FoundAtStart : ~Exists(cache, k)}

\* C28: a run tries each listed entry at most once per pass and, while it is
\* under way, always has a next step; a failed removal does not end it: when
\* it has returned, it has tried every entry it found older than the maximum
\* age and, if the cache is still over the bound, every entry still there;
\* and the value it returned is the number of entries it removed.
C28_BestEffort ==
    /\ NoRepeat(sweep.age_tried) /\ Range(sweep.age_tried) \subseteq FoundAtStart
    /\ NoRepeat(sweep.size_tried)
    /\ Range(sweep.size_tried) \subseteq FoundAtStart
    /\ sweep.pc \in {"age", "size"}
       => ENABLED (SweepAgeStep \/ SweepMeasure \/ SweepSizeStep \/ SweepReturn)
    /\ sweep.pc = "done"
       => /\ \A k \in FoundAtStart :
                AgeAtSweep(k) > ttl_seconds => k \in Range(sweep.age_tried)
          /\ get_cache_size_bytes(cache) > max_size_bytes
             => Present(cache) \subseteq Range(sweep.size_tried)
          /\ sweep.returned[Runs].removed_count = Cardinality(GoneSinceStart)

\* A run has returned in which the removal of one expired entry raised and
\* the expired entry tried after it was removed.
C28_Witness ==
    /\ sweep.pc = "done"
    /\ \E i, j \in 1..Len(sweep.age_tried) :
          /\ i < j
          /\ sweep.age_tried[i] \in sweep.failed
          /\ Exists(cache, sweep.age_tried[i])
          /\ ~Exists(cache, sweep.age_tried[j])
    /\ sweep.returned[Runs].removed_count = Cardinality(GoneSinceStart)


(* -------------------- claims on the manager, continued ----------------- *)

\* C26: every call suspended in get_pipeline() or cleanup(), on the lock, in
\* the load or in the wait loop, eventually returns or raises.
C26_EveryCallReturns ==
    \A c \in LifecycleCallers :
        (pc[c] \in {"wait_lock", "loading", "polling"}) ~> (pc[c] = "done")

\* A warm-up that was suspended on the lock during a load has returned, and
\* a release that arrived during the load is still queued on the lock.
C26_Witness ==
    /\ \E c \in waited : req[c].op = "warmup" /\ pc[c] = "done"
    /\ \E d \in DOMAIN pc :
          /\ req[d].op = "release"
          /\ pc[d] = "wait_lock"
          /\ \E e \in load_by : e < d /\ e \notin before[d]

(* --------------------------- search endpoint --------------------------- *)

\* What claim C22 accepts: 1 <= len(q) <= 200 and 1 <= limit <= 100, the
\* limit taken as 10 when omitted.
Accepted(p) ==
    /\ p.has_q
    /\ 1 <= Len(p.q) /\ Len(p.q) <= 200
    /\ 1 <= (IF p.has_limit THEN p.limit ELSE 10)
    /\ (IF p.has_limit THEN p.limit ELSE 10) <= 100

Handled(c) == pc[c] = "idle" /\ pc'[c] # "idle"

\* C21: with TTS disabled, a generation request is answered at once with
\* <audio_base_url>/<mystery_id>.wav and cached = true, and no step of a
\* generation, warm-up or health request changes the cache, the manager or
\* the evictor: no sweep ever starts, no engine load, no synthesis.
C21_DisabledIsInert ==
    [][~tts_enabled =>
         /\ sweep' = NoSweep
         /\ load_by' = {} /\ pool_submits' = {} /\ engine_calls' = {}
         /\ \A c \in EndpointCallers :
               (Handled(c) /\ req'[c].op # "release") =>
                  /\ pc'[c] = "done"
                  /\ UNCHANGED <<manager, cache_dir_exists, cache, removed,
                                 evictor>>
                  /\ req'[c].op = "create_tts" =>
                        /\ result'[c].status = "ok"
                        /\ result'[c].cached
                        /\ result'[c].audio_url =
                              "https://pages.example/audio/"
                                  \o req'[c].mystery_id \o ".wav"]_vars

\* With TTS disabled and a file in the cache, a generation request and a
\* warm-up request were answered.
C21_Witness ==
    /\ ~tts_enabled
    /\ Present(cache) # {}
    /\ \E c, d \in EndpointCallers :
          /\ pc[c] = "done" /\ req[c].op = "create_tts"
          /\ result[c].cached
          /\ pc[d] = "done" /\ req[d].op = "warmup"

C30_NeverLoadsWithoutLazyLoad ==
    ~tts_lazy_load =>
        /\ load_by = {} /\ ~is_loading /\ lock_holder = NoOne
        /\ pipeline = NoPipeline /\ initialization_error = NoError
        /\ ~is_tts_model_ready
        /\ pool_submits = {} /\ engine_calls = {}
        /\ \A c \in EndpointCallers :
              /\ pc[c] \in {"idle", "done"}
              /\ (tts_enabled /\ req[c].op = "warmup") =>
                    /\ result[c].status = "error"
                    /\ result[c].error = "TTSModelNotReadyError"
              /\ (tts_enabled /\ req[c].op = "is_ready") =>
                    result[c].audio_url = "not_loaded"
              /\ (req[c].op = "generate" /\ result[c].status = "ok") =>
                    result[c].cached

\* With lazy loading disabled, a warm-up raised and a generate that missed
\* the cache failed.
C30_Witness ==
    /\ ~tts_lazy_load
    /\ \E c, d \in EndpointCallers :
          /\ req[c].op = "warmup" /\ result[c].status = "error"
          /\ req[d].op = "generate" /\ pc[d] = "done"
          /\ gp_out[d] # NotCalled
          /\ result[d].status = "error"


====
